---- MODULE Spec2Model ----
(***************************************************************************)
(* The list-state engine of the grocery backend: ListOrganizationAgent     *)
(* (load_state, save_state, categorize_items, organize_by_aisle,           *)
(* update_item_status, remove_item) and the four request handlers of       *)
(* main.py that drive it.                                                  *)
(*                                                                         *)
(* A Python dict is insertion-ordered: it is modelled as a sequence of     *)
(* entries [aisle, items], in insertion order.  An item name is a          *)
(* sequence of one-character strings, so that str.lower() is computed      *)
(* character by character.                                                 *)
(***************************************************************************)
EXTENDS Integers, Sequences, FiniteSets, TLC

VARIABLES
    current_items,   \* list_organizer.current_items
    state_file,      \* the document state.json
    uuid_count,      \* how many uuid4() values were drawn
    answer,          \* the categorization collaborator's answer in flight
    pc,              \* "idle", or "respond" while a handler returns its response
    request,         \* the request being answered: its arguments and what it found
    in_flight        \* the handlers that awaited a call to the collaborator

vars == <<current_items, state_file, uuid_count, answer, pc, request, in_flight>>

(***************************************************************************)
(* Bounds of the model.                                                    *)
(***************************************************************************)
MaxBatch == 2      \* most records in one answer of the collaborator
MaxItems == 3      \* room in the list: items held plus records of the answer
MaxUuid == 3       \* most uuid4() values drawn in one run
MaxInFlight == 2   \* most handlers that await the collaborator in one run

(***************************************************************************)
(* Values.                                                                 *)
(***************************************************************************)
None == "<None>"          \* Python None
Missing == "<missing>"    \* a key the collaborator's JSON object lacks
MissingName == <<Missing>>  \* the same, where a name is expected
JNull == "<null>"         \* JSON null
JTrue == "<true>"         \* JSON true
JFalse == "<false>"       \* JSON false

default_aisles ==
    <<"Produce", "Dairy", "Meat", "Frozen", "Pantry", "Canned Goods",
      "Baking", "Beverages", "Snacks", "Household", "Personal Care">>

Milk == <<"M", "i", "l", "k">>
milk == <<"m", "i", "l", "k">>
MilkPadded == <<" ", "M", "i", "l", "k", " ">>
Eggs == <<"E", "g", "g", "s">>

AisleInputs == {"Dairy", "Pantry", "Deli", "Bakery"}

(***************************************************************************)
(* str.lower(), which the code applies to names, and str.strip(), which    *)
(* it does not.                                                            *)
(***************************************************************************)
LowerChar(c) ==
    CASE c = "M" -> "m"
      [] c = "E" -> "e"
      [] OTHER -> c

\* mutant: names compared as written
LowerAsWritten(s) == s

Lower(s) == [i \in DOMAIN s |-> LowerChar(s[i])]

RECURSIVE Strip(_)
Strip(s) ==
    IF s = <<>> THEN s
    ELSE IF Head(s) = " " THEN Strip(Tail(s))
    ELSE IF s[Len(s)] = " " THEN Strip(SubSeq(s, 1, Len(s) - 1))
    ELSE s

(***************************************************************************)
(* uuid.uuid4(): the n-th value drawn differs from every value drawn       *)
(* before and from every id the collaborator writes.                       *)
(***************************************************************************)
Uuid(n) == "uuid-" \o ToString(n)

(***************************************************************************)
(* Insertion-ordered dict operations.                                      *)
(***************************************************************************)
Keys(d) == [i \in DOMAIN d |-> d[i].aisle]

KeySet(d) == {d[i].aisle : i \in DOMAIN d}

Get(d, a) == (CHOOSE i \in DOMAIN d : d[i].aisle = a)

ItemsOf(d, a) == IF a \in KeySet(d) THEN d[Get(d, a)].items ELSE <<>>

\* d[a] = v: an existing key keeps its position, a new key goes last
Put(d, a, v) ==
    IF a \in KeySet(d)
    THEN [i \in DOMAIN d |-> IF d[i].aisle = a THEN [aisle |-> a, items |-> v] ELSE d[i]]
    ELSE Append(d, [aisle |-> a, items |-> v])

\* del d[a]
Del(d, a) == SelectSeq(d, LAMBDA e : e.aisle # a)

RECURSIVE Flatten(_)
Flatten(d) == IF d = <<>> THEN <<>> ELSE Head(d).items \o Flatten(Tail(d))

Count(d) == Len(Flatten(d))

\* mutant: only the first aisle is looked through
AllItemsOfFirstAisle(d) ==
    IF d = <<>> THEN {} ELSE {Head(d).items[i] : i \in DOMAIN Head(d).items}

AllItems(d) == {Flatten(d)[i] : i \in DOMAIN Flatten(d)}

(***************************************************************************)
(* GroceryItem                                                             *)
(***************************************************************************)
\* mutant: the aisle is not required
ValidWithoutAisle(item_data) ==
    /\ item_data.id # Missing
    /\ item_data.name # MissingName

\* pydantic validation of GroceryItem(**item_data): id, name and aisle are
\* required strings
Valid(item_data) ==
    /\ item_data.id # Missing
    /\ item_data.name # MissingName
    /\ item_data.aisle # Missing

\* GroceryItem(**item_data): optional fields take their defaults
GroceryItem(item_data) ==
    [id |-> item_data.id,
     name |-> item_data.name,
     aisle |-> item_data.aisle,
     quantity |-> IF item_data.quantity = Missing THEN None ELSE item_data.quantity,
     quantity_unit |-> IF item_data.quantity_unit = Missing THEN None
                       ELSE item_data.quantity_unit,
     checked |-> IF item_data.checked = Missing THEN FALSE ELSE item_data.checked]

(***************************************************************************)
(* load_state / save_state                                                 *)
(***************************************************************************)
JsonOpt(v) == IF v = None THEN JNull ELSE v
PyOpt(v) == IF v \in {JNull, Missing} THEN None ELSE v

\* item.dict() written by json.dump
DumpItem(item) ==
    [id |-> item.id,
     name |-> item.name,
     aisle |-> item.aisle,
     quantity |-> JsonOpt(item.quantity),
     quantity_unit |-> JsonOpt(item.quantity_unit),
     checked |-> IF item.checked THEN JTrue ELSE JFalse]

\* mutant: the checked flag of the object is not read
LoadItemUnchecked(obj) ==
    [id |-> obj.id,
     name |-> obj.name,
     aisle |-> obj.aisle,
     quantity |-> PyOpt(obj.quantity),
     quantity_unit |-> PyOpt(obj.quantity_unit),
     checked |-> FALSE]

\* GroceryItem(**item) on an object read by json.load
LoadItem(obj) ==
    [id |-> obj.id,
     name |-> obj.name,
     aisle |-> obj.aisle,
     quantity |-> PyOpt(obj.quantity),
     quantity_unit |-> PyOpt(obj.quantity_unit),
     checked |-> (obj.checked = JTrue)]

\* the document save_state writes for the state d
Dump(d) ==
    [exists |-> TRUE,
     shape |-> "layout",
     items |-> [i \in DOMAIN d |->
                  [aisle |-> d[i].aisle,
                   items |-> [j \in DOMAIN d[i].items |-> DumpItem(d[i].items[j])]]]]

NoFile == [exists |-> FALSE, shape |-> "absent", items |-> <<>>]

\* a file whose text is not what save_state writes.  shape tells what
\* json.load makes of the text: "not-json" is a text json.load rejects (the
\* empty text and every proper prefix of a document are such texts),
\* "not-object" a JSON value that is no object, "no-items" an object
\* without the key "items", "items-not-object" an object whose "items" is
\* no object, "layout" the layout save_state writes
OtherFile(shape) == [exists |-> TRUE, shape |-> shape, items |-> <<>>]

\* the exceptions load_state does not catch: AttributeError of state.get or
\* of .items() on a value that is no dict, and pydantic's ValidationError of
\* GroceryItem(**item) for an object without a required field
LoadRaises(file) ==
    /\ file.exists
    /\ \/ file.shape \in {"not-object", "items-not-object"}
       \/ /\ file.shape = "layout"
          /\ \E i \in DOMAIN file.items : \E j \in DOMAIN file.items[i].items :
                 ~Valid(file.items[i].items[j])

\* what load_state returns when it raises nothing
load_state(file) ==
    IF ~file.exists THEN <<>>     \* FileNotFoundError
    ELSE IF file.shape = "not-json" THEN <<>>     \* json.JSONDecodeError
    ELSE IF file.shape = "no-items" THEN <<>>     \* state.get('items', {})
    ELSE [i \in DOMAIN file.items |->
            [aisle |-> file.items[i].aisle,
             items |-> [j \in DOMAIN file.items[i].items |->
                          LoadItem(file.items[i].items[j])]]]

save_state(d) == Dump(d)

(***************************************************************************)
(* categorize_items                                                        *)
(***************************************************************************)
\* the loop over categorized_data["items"]: a record without an id gets the
\* next uuid4() value; n values were drawn before
RECURSIVE WithIds(_, _)
WithIds(data, n) ==
    IF data = <<>> THEN <<>>
    ELSE IF Head(data).id = Missing
         THEN <<[Head(data) EXCEPT !.id = Uuid(n + 1)]>> \o WithIds(Tail(data), n + 1)
         ELSE <<Head(data)>> \o WithIds(Tail(data), n)

UuidsDrawn(data) == Cardinality({i \in DOMAIN data : data[i].id = Missing})

\* mutant: the existing names trimmed as well as lowercased
existing_names_trimmed(cur) == {Lower(Strip(it.name)) : it \in AllItems(cur)}

\* the set of existing item names (case-insensitive)
existing_names(cur) == {Lower(it.name) : it \in AllItems(cur)}

\* the collaborator answered with the records data; the GroceryItems returned
categorize_items(cur, data, preserve_existing, n) ==
    LET withIds == WithIds(data, n)
        new_items == [i \in DOMAIN data |-> GroceryItem(withIds[i])]
    IN IF preserve_existing
       THEN SelectSeq(new_items, LAMBDA it : Lower(it.name) \notin existing_names(cur))
       ELSE new_items

\* mutant: no record fails validation
CategorizeNeverRaises(data) == FALSE

\* GroceryItem(**item_data) raises for a record that fails validation
CategorizeRaises(data) == \E i \in DOMAIN data : ~Valid([data[i] EXCEPT !.id = "set"])

(***************************************************************************)
(* organize_by_aisle                                                       *)
(***************************************************************************)
\* mutant: no look for an item of that name in organized
RECURSIVE AddNewUnchecked(_, _)
AddNewUnchecked(organized, items) ==
    IF items = <<>> THEN organized
    ELSE AddNewUnchecked(Put(organized, Head(items).aisle,
                             Append(ItemsOf(organized, Head(items).aisle), Head(items))),
                         Tail(items))

\* mutant: the item is put at the head of its aisle's list
RECURSIVE AddNewPrepend(_, _)
AddNewPrepend(organized, items) ==
    IF items = <<>> THEN organized
    ELSE LET item == Head(items)
             item_exists ==
                 \E e \in AllItems(organized) : Lower(e.name) = Lower(item.name)
         IN AddNewPrepend(IF item_exists THEN organized
                          ELSE Put(organized, item.aisle,
                                   <<item>> \o ItemsOf(organized, item.aisle)),
                          Tail(items))

\* the loop "for item in items" over the dict organized
RECURSIVE AddNew(_, _)
AddNew(organized, items) ==
    IF items = <<>> THEN organized
    ELSE LET item == Head(items)
             item_exists ==
                 \E e \in AllItems(organized) : Lower(e.name) = Lower(item.name)
         IN AddNew(IF item_exists THEN organized
                   ELSE Put(organized, item.aisle,
                            Append(ItemsOf(organized, item.aisle), item)),
                   Tail(items))

\* the sort key: the index in default_aisles, len(default_aisles) otherwise
AisleKey(a) ==
    IF \E i \in DOMAIN default_aisles : default_aisles[i] = a
    THEN (CHOOSE i \in DOMAIN default_aisles : default_aisles[i] = a) - 1
    ELSE Len(default_aisles)

\* mutant: an entry goes before the entries of the same key
InsertByKeyBeforeEqual(sorted, e) ==
    LET k == Cardinality({i \in DOMAIN sorted :
                            AisleKey(sorted[i].aisle) < AisleKey(e.aisle)})
    IN SubSeq(sorted, 1, k) \o <<e>> \o SubSeq(sorted, k + 1, Len(sorted))

\* sorted() is stable: an entry goes after every entry whose key is not larger
InsertByKey(sorted, e) ==
    LET k == Cardinality({i \in DOMAIN sorted :
                            AisleKey(sorted[i].aisle) <= AisleKey(e.aisle)})
    IN SubSeq(sorted, 1, k) \o <<e>> \o SubSeq(sorted, k + 1, Len(sorted))

RECURSIVE SortInto(_, _)
SortInto(sorted, rest) ==
    IF rest = <<>> THEN sorted
    ELSE SortInto(InsertByKey(sorted, Head(rest)), Tail(rest))

\* mutant: the aisles left in insertion order
unsorted_aisles(organized) == organized

sorted_aisles(organized) == SortInto(<<>>, organized)

\* mutant: the current items are kept whatever preserve_existing says
organize_by_aisle_keeping(cur, items, preserve_existing) ==
    sorted_aisles(AddNew(cur, items))

\* the value organize_by_aisle assigns to self.current_items
organize_by_aisle(cur, items, preserve_existing) ==
    LET organized == IF preserve_existing THEN cur ELSE <<>>
    IN sorted_aisles(AddNew(organized, items))

(***************************************************************************)
(* update_item_status / remove_item                                        *)
(***************************************************************************)
\* mutant: every item of the aisle gets the flag
update_item_status_all(cur, aisle, item_id, checked) ==
    IF aisle \in KeySet(cur)
    THEN Put(cur, aisle,
             [j \in DOMAIN ItemsOf(cur, aisle) |->
                 [ItemsOf(cur, aisle)[j] EXCEPT !.checked = checked]])
    ELSE cur

\* mutant: the id is looked for in every aisle
update_item_status_any_aisle(cur, aisle, item_id, checked) ==
    IF aisle \in KeySet(cur)
    THEN [i \in DOMAIN cur |->
            [aisle |-> cur[i].aisle,
             items |-> [j \in DOMAIN cur[i].items |->
                          LET item == cur[i].items[j]
                          IN [item EXCEPT !.checked =
                                 IF item.id = item_id THEN checked ELSE item.checked]]]]
    ELSE cur

update_item_status(cur, aisle, item_id, checked) ==
    IF aisle \in KeySet(cur)
    THEN Put(cur, aisle,
             [j \in DOMAIN ItemsOf(cur, aisle) |->
                 LET item == ItemsOf(cur, aisle)[j]
                 IN [item EXCEPT !.checked =
                        IF item.id = item_id THEN checked ELSE item.checked]])
    ELSE cur

\* mutant: an aisle left empty stays a key
remove_item_keeping_aisle(cur, aisle, item_id) ==
    IF aisle \in KeySet(cur)
    THEN Put(cur, aisle, SelectSeq(ItemsOf(cur, aisle), LAMBDA item : item.id # item_id))
    ELSE cur

\* mutant: the id is looked for in every aisle
remove_item_every_aisle(cur, aisle, item_id) ==
    IF aisle \in KeySet(cur)
    THEN SelectSeq([i \in DOMAIN cur |->
                       [aisle |-> cur[i].aisle,
                        items |-> SelectSeq(cur[i].items, LAMBDA item : item.id # item_id)]],
                   LAMBDA entry : entry.items # <<>>)
    ELSE cur

remove_item(cur, aisle, item_id) ==
    IF aisle \in KeySet(cur)
    THEN LET kept == SelectSeq(ItemsOf(cur, aisle), LAMBDA item : item.id # item_id)
         IN IF kept = <<>> THEN Del(cur, aisle) ELSE Put(cur, aisle, kept)
    ELSE cur

\* add_items: the current items, then the new items whose lowercased name no
\* current item has
add_items(cur_list, new_items) ==
    LET names == {Lower(cur_list[i].name) : i \in DOMAIN cur_list}
    IN cur_list \o SelectSeq(new_items, LAMBDA item : Lower(item.name) \notin names)

\* mutant: the mutators never save
MutatorNeverSaves(cur, aisle) == FALSE

\* both mutators call save_state only inside "if aisle in self.current_items"
MutatorSaves(cur, aisle) == aisle \in KeySet(cur)

(***************************************************************************)
(* The collaborator                                                        *)
(***************************************************************************)
ItemDataOf(name, aisle, id, quantity) ==
    [name |-> name, aisle |-> aisle, id |-> id, quantity |-> quantity,
     quantity_unit |-> Missing, checked |-> Missing]

\* the records the categorization answers are made of
ItemData ==
    {ItemDataOf(Milk, "Dairy", Missing, Missing),
     ItemDataOf(Milk, "Dairy", "x", "2"),
     ItemDataOf(milk, "Pantry", "x", "2"),
     ItemDataOf(MilkPadded, "Bakery", Missing, Missing),
     ItemDataOf(Eggs, "Dairy", "x", Missing),
     ItemDataOf(Eggs, "Deli", Missing, Missing),
     ItemDataOf(Eggs, "Pantry", "", "2"),
     ItemDataOf(MissingName, "Dairy", Missing, Missing)}

Batches == UNION {[1..n -> ItemData] : n \in 0..MaxBatch}

NoAnswer == [status |-> "none", items |-> <<>>]

\* an error of the service, a timeout or an answer that is no JSON object
ErrorAnswer == [status |-> "error", items |-> <<>>]

OkAnswer(data) == [status |-> "ok", items |-> data]

(***************************************************************************)
(* The request handlers of main.py                                         *)
(***************************************************************************)
\* "if not item.id: item.id = str(uuid.uuid4())" over the categorized items
RECURSIVE EnsureIds(_, _)
EnsureIds(items, n) ==
    IF items = <<>> THEN <<>>
    ELSE IF Head(items).id = ""
         THEN <<[Head(items) EXCEPT !.id = Uuid(n + 1)]>> \o EnsureIds(Tail(items), n + 1)
         ELSE <<Head(items)>> \o EnsureIds(Tail(items), n)

EmptyIds(items) == Cardinality({i \in DOMAIN items : items[i].id = ""})

\* the arguments of the item requests; no item has the id "none" and no
\* answer names the aisle "Frozen"
ItemIds == {Uuid(k) : k \in 1..MaxUuid} \cup {"x", "none"}

AisleArgs == AisleInputs \cup {"Frozen"}

NoArgs ==
    [data |-> <<>>, preserve_existing |-> TRUE, aisle |-> "", item_id |-> "",
     checked |-> FALSE]

NoRequest ==
    [op |-> "none", pre |-> <<>>, pre_file |-> NoFile, pre_uuid |-> 0,
     data |-> <<>>, preserve_existing |-> TRUE, aisle |-> "", item_id |-> "",
     checked |-> FALSE, raised |-> FALSE]

Record(op, args, raised) ==
    [op |-> op, pre |-> current_items, pre_file |-> state_file, pre_uuid |-> uuid_count,
     data |-> args.data, preserve_existing |-> args.preserve_existing,
     aisle |-> args.aisle, item_id |-> args.item_id, checked |-> args.checked,
     raised |-> raised]

\* categorize_items, the id loop of the handler and organize_by_aisle
Merged(cur, data, preserve_existing, n) ==
    LET categorized == categorize_items(cur, data, preserve_existing, n)
        grocery_items == EnsureIds(categorized, n + UuidsDrawn(data))
    IN organize_by_aisle(cur, grocery_items, preserve_existing)

UuidsAfter(cur, data, preserve_existing, n) ==
    n + UuidsDrawn(data) + EmptyIds(categorize_items(cur, data, preserve_existing, n))

\* the call to groq_client is synchronous: its answer is fixed before the
\* handler that made it goes on
collaborator ==
    /\ pc = "idle"
    /\ answer = NoAnswer
    /\ \/ answer' = ErrorAnswer
       \/ \E data \in Batches :
            /\ Count(current_items) + Len(data) <= MaxItems
            /\ UuidsAfter(current_items, data, TRUE, uuid_count) <= MaxUuid
            /\ answer' = OkAnswer(data)
    /\ UNCHANGED <<current_items, state_file, uuid_count, pc, request, in_flight>>

\* mutant: the handler goes on with the list it saw when it made the call
ListReadAtCall(cur, flight) ==
    IF \E k \in DOMAIN flight : flight[k].phase = "resumed"
    THEN flight[CHOOSE k \in DOMAIN flight : flight[k].phase = "resumed"].seen
    ELSE cur

\* self.current_items as categorize_items and organize_by_aisle read it:
\* after the call to the collaborator has returned, whatever the list was
\* when the call was made
ListRead(cur, flight) == cur

\* the body of process_message and of add_recipe after the parsing calls
IngestAndMerge(op) ==
    /\ pc = "idle"
    /\ answer # NoAnswer
    /\ \A k \in DOMAIN in_flight :
         in_flight[k].phase = "resumed" => in_flight[k].op = op
    /\ IF answer.status = "error" \/ CategorizeRaises(answer.items)
       THEN \* except Exception: HTTPException(500)
            /\ request' = Record(op, [NoArgs EXCEPT !.data = answer.items], TRUE)
            /\ UNCHANGED <<current_items, state_file, uuid_count>>
       ELSE /\ current_items' = Merged(ListRead(current_items, in_flight),
                                        answer.items, TRUE, uuid_count)
            /\ state_file' = save_state(current_items')
            /\ uuid_count' = UuidsAfter(current_items, answer.items, TRUE, uuid_count)
            /\ request' = Record(op, [NoArgs EXCEPT !.data = answer.items], FALSE)
    /\ answer' = NoAnswer
    /\ pc' = "respond"
    /\ UNCHANGED in_flight

\* a caller of the agent that passes preserve_existing=False to
\* categorize_items and to organize_by_aisle; no handler of main.py does
organize_without_preserve ==
    /\ pc = "idle"
    /\ answer.status = "ok"
    /\ ~CategorizeRaises(answer.items)
    /\ UuidsAfter(current_items, answer.items, FALSE, uuid_count) <= MaxUuid
    /\ current_items' = Merged(current_items, answer.items, FALSE, uuid_count)
    /\ state_file' = save_state(current_items')
    /\ uuid_count' = UuidsAfter(current_items, answer.items, FALSE, uuid_count)
    /\ request' = Record("organize_without_preserve",
                         [NoArgs EXCEPT !.data = answer.items,
                                        !.preserve_existing = FALSE], FALSE)
    /\ answer' = NoAnswer
    /\ pc' = "respond"
    /\ UNCHANGED in_flight

\* POST /api/message
process_message == IngestAndMerge("process_message")

\* POST /api/recipe
add_recipe == IngestAndMerge("add_recipe")

\* POST /api/item/update
update_item ==
    /\ pc = "idle"
    /\ answer = NoAnswer
    /\ \E aisle \in AisleArgs, item_id \in ItemIds, checked \in BOOLEAN :
         /\ current_items' = update_item_status(current_items, aisle, item_id, checked)
         /\ state_file' = IF MutatorSaves(current_items, aisle)
                          THEN save_state(current_items') ELSE state_file
         /\ request' = Record("update_item",
                              [NoArgs EXCEPT !.aisle = aisle, !.item_id = item_id,
                                             !.checked = checked], FALSE)
    /\ pc' = "respond"
    /\ UNCHANGED <<uuid_count, answer, in_flight>>

\* POST /api/item/remove
remove_item_endpoint ==
    /\ pc = "idle"
    /\ answer = NoAnswer
    /\ \E aisle \in AisleArgs, item_id \in ItemIds :
         /\ current_items' = remove_item(current_items, aisle, item_id)
         /\ state_file' = IF MutatorSaves(current_items, aisle)
                          THEN save_state(current_items') ELSE state_file
         /\ request' = Record("remove_item",
                              [NoArgs EXCEPT !.aisle = aisle, !.item_id = item_id], FALSE)
    /\ pc' = "respond"
    /\ UNCHANGED <<uuid_count, answer, in_flight>>

\* the handler returns: the response is the whole of current_items
respond ==
    /\ pc = "respond"
    /\ pc' = "idle"
    /\ request' = NoRequest
    /\ in_flight' = [k \in DOMAIN in_flight |->
                        IF in_flight[k].phase = "resumed"
                        THEN [in_flight[k] EXCEPT !.phase = "done", !.seen = <<>>]
                        ELSE in_flight[k]]
    /\ UNCHANGED <<current_items, state_file, uuid_count, answer>>

\* the process stops and starts again: ListOrganizationAgent.__init__.  An
\* exception of load_state ends the import of main.py
Restart ==
    /\ pc = "idle"
    /\ answer = NoAnswer
    /\ IF LoadRaises(state_file)
       THEN pc' = "crashed" /\ UNCHANGED current_items
       ELSE current_items' = load_state(state_file) /\ UNCHANGED pc
    /\ UNCHANGED <<state_file, uuid_count, answer, request, in_flight>>

Init ==
    /\ state_file = NoFile
    /\ current_items = load_state(NoFile)
    /\ uuid_count = 0
    /\ answer = NoAnswer
    /\ pc = "idle"
    /\ request = NoRequest
    /\ in_flight = <<>>

Next ==
    \/ collaborator
    \/ process_message
    \/ add_recipe
    \/ update_item
    \/ remove_item_endpoint
    \/ respond
    \/ Restart

Spec == Init /\ [][Next]_vars

\* the handlers, and the agent called directly with preserve_existing=False
NextApi == Next \/ organize_without_preserve

SpecApi == Init /\ [][NextApi]_vars

(***************************************************************************)
(* The process started on a state.json it finds: a file some earlier run   *)
(* or another program left there.  load_state reads whatever the file      *)
(* holds and does not sort the aisles.                                     *)
(***************************************************************************)
FoundItem(id, name, aisle, quantity, quantity_unit, checked) ==
    [id |-> id, name |-> name, aisle |-> aisle, quantity |-> quantity,
     quantity_unit |-> quantity_unit, checked |-> checked]

FoundEntries ==
    <<[aisle |-> "Deli",
       items |-> <<FoundItem("x", Eggs, "Deli", JNull, JNull, JFalse)>>],
      [aisle |-> "Bakery",
       items |-> <<FoundItem(Uuid(1), MilkPadded, "Bakery", "2", "l", JTrue)>>],
      [aisle |-> "Dairy",
       items |-> <<FoundItem(Uuid(2), Milk, "Dairy", "2", JNull, JFalse)>>]>>

\* an aisle with an item object that lacks the name, and one that lacks the id
NamelessEntry ==
    [aisle |-> "Dairy",
     items |-> <<FoundItem("x", MissingName, "Dairy", JNull, JNull, JFalse)>>]

IdlessEntry ==
    [aisle |-> "Pantry",
     items |-> <<FoundItem(Missing, Eggs, "Pantry", JNull, JNull, JFalse)>>]

LayoutFile(entries) == [exists |-> TRUE, shape |-> "layout", items |-> entries]

\* the entries of FoundEntries, any of them in any order
Orderings ==
    {q \in UNION {[1..n -> DOMAIN FoundEntries] : n \in 0..Len(FoundEntries)} :
        \A i, j \in DOMAIN q : i # j => q[i] # q[j]}

Documents ==
    {NoFile}
    \cup {OtherFile(shape) :
             shape \in {"not-json", "not-object", "no-items", "items-not-object"}}
    \cup {LayoutFile([i \in DOMAIN q |-> FoundEntries[q[i]]]) : q \in Orderings}
    \cup {LayoutFile(<<NamelessEntry>>), LayoutFile(<<FoundEntries[1], IdlessEntry>>)}

\* ListOrganizationAgent.__init__ at the import of main.py
startup ==
    /\ pc \in {"start", "killed"}
    /\ IF LoadRaises(state_file)
       THEN /\ pc' = "crashed"
            /\ request' = Record("startup", NoArgs, TRUE)
            /\ UNCHANGED current_items
       ELSE /\ pc' = "idle"
            /\ request' = Record("startup", NoArgs, FALSE)
            /\ current_items' = load_state(state_file)
    /\ UNCHANGED <<state_file, uuid_count, answer, in_flight>>

\* the collaborator finds no item in the message, or fails
collaborator_finds_nothing ==
    /\ pc = "idle"
    /\ answer = NoAnswer
    /\ answer' \in {ErrorAnswer, OkAnswer(<<>>)}
    /\ UNCHANGED <<current_items, state_file, uuid_count, pc, request, in_flight>>

InitLoad ==
    /\ state_file \in Documents
    /\ current_items = <<>>
    /\ uuid_count = 0
    /\ answer = NoAnswer
    /\ pc = "start"
    /\ request = NoRequest
    /\ in_flight = <<>>

NextLoad ==
    \/ startup
    \/ collaborator_finds_nothing
    \/ process_message
    \/ add_recipe
    \/ update_item
    \/ remove_item_endpoint
    \/ respond
    \/ Restart

SpecLoad == InitLoad /\ [][NextLoad]_vars

(***************************************************************************)
(* The process killed while save_state runs.  open(self.state_file, 'w')   *)
(* empties the file and json.dump writes the text piece by piece: the file *)
(* is as it was if the kill comes before open, whole if it comes after the *)
(* last piece, and the empty text or a proper prefix of the document       *)
(* otherwise.                                                              *)
(***************************************************************************)
PartialDocument == OtherFile("not-json")

killed_in_save ==
    /\ pc = "idle"
    /\ \/ /\ answer = NoAnswer
          /\ \E aisle \in AisleArgs, item_id \in ItemIds, checked \in BOOLEAN :
               /\ MutatorSaves(current_items, aisle)
               /\ current_items' = update_item_status(current_items, aisle, item_id, checked)
               /\ request' = Record("update_item",
                                    [NoArgs EXCEPT !.aisle = aisle, !.item_id = item_id,
                                                   !.checked = checked], TRUE)
          /\ UNCHANGED uuid_count
       \/ /\ answer.status = "ok"
          /\ ~CategorizeRaises(answer.items)
          /\ current_items' = Merged(current_items, answer.items, TRUE, uuid_count)
          /\ uuid_count' = UuidsAfter(current_items, answer.items, TRUE, uuid_count)
          /\ request' = Record("process_message",
                               [NoArgs EXCEPT !.data = answer.items], TRUE)
    /\ state_file' \in {state_file, PartialDocument, save_state(current_items')}
    /\ answer' = NoAnswer
    /\ pc' = "killed"
    /\ UNCHANGED in_flight

NextCrash == NextLoad \/ killed_in_save

SpecCrash == InitLoad /\ [][NextCrash]_vars

(***************************************************************************)
(* The collaborator answers with a record that has no aisle, alone or      *)
(* beside a record of ItemData.                                            *)
(***************************************************************************)
NoAisleRecord == ItemDataOf(Eggs, Missing, Missing, Missing)

BatchesWithoutAisle ==
    {<<NoAisleRecord>>}
    \cup {<<record, NoAisleRecord>> : record \in ItemData}
    \cup {<<NoAisleRecord, record>> : record \in ItemData}

collaborator_omits_aisle ==
    /\ pc = "idle"
    /\ answer = NoAnswer
    /\ \E data \in BatchesWithoutAisle :
         /\ Count(current_items) + Len(data) <= MaxItems
         /\ UuidsAfter(current_items, data, TRUE, uuid_count) <= MaxUuid
         /\ answer' = OkAnswer(data)
    /\ UNCHANGED <<current_items, state_file, uuid_count, pc, request, in_flight>>

NextMalformed == Next \/ collaborator_omits_aisle

SpecMalformed == Init /\ [][NextMalformed]_vars

(***************************************************************************)
(* Requests that overlap.  The handlers are coroutines: one that awaits a  *)
(* call to the collaborator may stay there while other requests are        *)
(* handled; from the return of categorize_items' call to the handler's     *)
(* return there is no await that waits.                                    *)
(***************************************************************************)
\* a handler waiting: what it is, and the list as it was when it called
Waiting(op) == [op |-> op, seen |-> current_items, phase |-> "waiting"]

\* POST /api/message or /api/recipe arrives and reaches its call
call_collaborator ==
    /\ pc = "idle"
    /\ answer = NoAnswer
    /\ Len(in_flight) < MaxInFlight
    /\ \E op \in {"process_message", "add_recipe"} :
         in_flight' = Append(in_flight, Waiting(op))
    /\ UNCHANGED <<current_items, state_file, uuid_count, answer, pc, request>>

\* the answers of the collaborator to the overlapping requests
OverlapBatches ==
    {<<>>,
     <<ItemDataOf(Milk, "Dairy", Missing, Missing)>>,
     <<ItemDataOf(milk, "Pantry", "x", "2")>>,
     <<ItemDataOf(Eggs, "Deli", Missing, Missing)>>}

\* the call of one waiting handler returns, with an answer or an error
collaborator_returns ==
    /\ pc = "idle"
    /\ answer = NoAnswer
    /\ \E k \in DOMAIN in_flight :
         /\ in_flight[k].phase = "waiting"
         /\ in_flight' = [in_flight EXCEPT ![k].phase = "resumed"]
    /\ \/ answer' = ErrorAnswer
       \/ \E data \in OverlapBatches :
            /\ Count(current_items) + Len(data) <= MaxItems
            /\ UuidsAfter(current_items, data, TRUE, uuid_count) <= MaxUuid
            /\ answer' = OkAnswer(data)
    /\ UNCHANGED <<current_items, state_file, uuid_count, pc, request>>

\* the request names an item the list holds
TargetHeld(d, aisle, item_id) ==
    /\ aisle \in KeySet(d)
    /\ \E j \in DOMAIN ItemsOf(d, aisle) : ItemsOf(d, aisle)[j].id = item_id

NextConcurrent ==
    \/ call_collaborator
    \/ collaborator_returns
    \/ process_message
    \/ add_recipe
    \/ update_item /\ TargetHeld(current_items, request'.aisle, request'.item_id)
    \/ remove_item_endpoint /\ TargetHeld(current_items, request'.aisle, request'.item_id)
    \/ respond

SpecConcurrent == Init /\ [][NextConcurrent]_vars

(***************************************************************************)
(* What the claims speak of.  A handler that has run is seen in the state  *)
(* pc = "respond": request.pre is the list it found, request.data the      *)
(* records the collaborator answered with, current_items the list it       *)
(* returns.                                                                *)
(***************************************************************************)
IngestDone == pc = "respond" /\ request.op \in {"process_message", "add_recipe"}

MergeDone == IngestDone /\ ~request.raised

\* every record of the answer has the fields GroceryItem requires
WellFormed(data) ==
    \A i \in DOMAIN data : data[i].name # MissingName /\ data[i].aisle # Missing

UpdateDone == pc = "respond" /\ request.op = "update_item"

RemoveDone == pc = "respond" /\ request.op = "remove_item"

NoPreserveDone == pc = "respond" /\ request.op = "organize_without_preserve"

\* the name with its capital letters made small: two names are equal
\* ignoring case when these are equal
Key(name) ==
    [i \in DOMAIN name |->
        IF name[i] = "M" THEN "m" ELSE IF name[i] = "E" THEN "e" ELSE name[i]]

KeysIn(d) == {Key(it.name) : it \in AllItems(d)}

\* the items of d in order, each with the aisle it is filed under
RECURSIVE Located(_)
Located(d) ==
    IF d = <<>> THEN <<>>
    ELSE [j \in DOMAIN Head(d).items |-> [under |-> Head(d).aisle, item |-> Head(d).items[j]]]
         \o Located(Tail(d))

Named(d, key) == SelectSeq(Located(d), LAMBDA l : Key(l.item.name) = key)

NoDuplicateNames(d) ==
    LET keys == [i \in DOMAIN Flatten(d) |-> Key(Flatten(d)[i].name)]
    IN \A i, j \in DOMAIN keys : i # j => keys[i] # keys[j]

\* the records of the answer that are merged: the first of each name that
\* the list found does not hold
Survives(i) ==
    /\ Key(request.data[i].name) \notin KeysIn(request.pre)
    /\ \A j \in 1..(i - 1) : Key(request.data[j].name) # Key(request.data[i].name)

Survivors == {i \in DOMAIN request.data : Survives(i)}

\* the i-th record as the item it becomes, the id left aside
SameFields(item, item_data) ==
    /\ item.name = item_data.name
    /\ item.aisle = item_data.aisle
    /\ item.quantity = (IF item_data.quantity = Missing THEN None ELSE item_data.quantity)
    /\ item.quantity_unit = None
    /\ item.checked = FALSE
    /\ item_data.id \notin {Missing, ""} => item.id = item_data.id

\* the surviving records filed under the aisle a, in the order of the answer
RECURSIVE SurvivorsUnder(_, _)
SurvivorsUnder(a, i) ==
    IF i > Len(request.data) THEN <<>>
    ELSE (IF Survives(i) /\ request.data[i].aisle = a THEN <<i>> ELSE <<>>)
         \o SurvivorsUnder(a, i + 1)

\* the uuid4() value categorize_items gives the i-th record, which has no id
DrawnId(i) ==
    Uuid(request.pre_uuid
         + Cardinality({j \in 1..i : request.data[j].id = Missing}))

IsKnown(a) == \E k \in DOMAIN default_aisles : default_aisles[k] = a

Position(a) == CHOOSE k \in DOMAIN default_aisles : default_aisles[k] = a

\* known aisles in the order of default_aisles, every other aisle after them
Canonical(d) ==
    \A i, j \in DOMAIN d :
        i < j =>
            /\ IsKnown(d[j].aisle) => IsKnown(d[i].aisle)
            /\ IsKnown(d[i].aisle) /\ IsKnown(d[j].aisle)
                   => Position(d[i].aisle) < Position(d[j].aisle)

UnknownKeys(d) == SelectSeq(Keys(d), LAMBDA a : ~IsKnown(a))

\* the aisles of the surviving records that the list found lacks, each once,
\* in the order of the answer
RECURSIVE NewAisles(_, _)
NewAisles(i, seen) ==
    IF i > Len(request.data) THEN <<>>
    ELSE LET a == request.data[i].aisle
         IN IF Survives(i) /\ a \notin seen
            THEN <<a>> \o NewAisles(i + 1, seen \cup {a})
            ELSE NewAisles(i + 1, seen)

(***************************************************************************)
(* C1                                                                      *)
(***************************************************************************)
\* C1: in every state reached from the empty list, in memory and in the
\* persisted document, no two items of the list have names that are equal
\* ignoring case, two same-named records of one answer included.
C1_NoDuplicateNames ==
    /\ NoDuplicateNames(current_items)
    /\ NoDuplicateNames(load_state(state_file))

\* a merge whose answer held two records of one name, neither in the list
C1_Witness ==
    /\ MergeDone
    /\ \E i, j \in DOMAIN request.data :
         /\ i < j
         /\ Survives(i)
         /\ Key(request.data[i].name) = Key(request.data[j].name)
         /\ request.data[i].name # request.data[j].name

(***************************************************************************)
(* C2                                                                      *)
(***************************************************************************)
\* C2: a record whose name equals, ignoring case, the name of an item the
\* list holds is dropped by a merge: no error, the item of that name is the
\* one the list held, with its id, aisle, quantity and checked flag, under
\* the same aisle; the id drawn for the record appears nowhere; the list
\* grows by the surviving records only.
C2_DropsExistingName ==
    (IngestDone /\ WellFormed(request.data)) =>
        \A i \in DOMAIN request.data :
             Key(request.data[i].name) \in KeysIn(request.pre) =>
                /\ ~request.raised
                /\ Count(current_items) = Count(request.pre) + Cardinality(Survivors)
                /\ Named(current_items, Key(request.data[i].name))
                     = Named(request.pre, Key(request.data[i].name))
                /\ Len(Named(current_items, Key(request.data[i].name))) = 1
                /\ request.data[i].id = Missing =>
                     \A it \in AllItems(current_items) : it.id # DrawnId(i)

\* a record named like an item of the list but for another aisle was dropped
C2_Witness ==
    /\ MergeDone
    /\ \E i \in DOMAIN request.data, e \in AllItems(request.pre) :
         /\ Key(request.data[i].name) = Key(e.name)
         /\ request.data[i].name # e.name
         /\ request.data[i].aisle # e.aisle
         /\ request.data[i].id = Missing

(***************************************************************************)
(* C3                                                                      *)
(***************************************************************************)
\* C3: a merge keeps every aisle of the list it found with its items first,
\* unchanged and in the same order; after them come the surviving records of
\* that aisle in the order of the answer; an aisle is new only if a
\* surviving record names it.
C3_MergeAppends ==
    MergeDone =>
        /\ KeySet(current_items)
             = KeySet(request.pre) \cup {request.data[i].aisle : i \in Survivors}
        /\ \A a \in KeySet(current_items) :
             LET old == ItemsOf(request.pre, a)
                 now == ItemsOf(current_items, a)
                 new == SurvivorsUnder(a, 1)
             IN /\ Len(now) = Len(old) + Len(new)
                /\ SubSeq(now, 1, Len(old)) = old
                /\ \A k \in DOMAIN new :
                     SameFields(now[Len(old) + k], request.data[new[k]])

\* one record joined an aisle that held an item, another opened an aisle
C3_Witness ==
    /\ MergeDone
    /\ \E i, j \in Survivors :
         /\ i < j
         /\ ItemsOf(request.pre, request.data[i].aisle) # <<>>
         /\ request.data[j].aisle \notin KeySet(request.pre)

(***************************************************************************)
(* C4                                                                      *)
(***************************************************************************)
\* the first record of each name in the answer
First(i) == \A j \in 1..(i - 1) : Key(request.data[j].name) # Key(request.data[i].name)

RECURSIVE FirstsUnder(_, _)
FirstsUnder(a, i) ==
    IF i > Len(request.data) THEN <<>>
    ELSE (IF First(i) /\ request.data[i].aisle = a THEN <<i>> ELSE <<>>)
         \o FirstsUnder(a, i + 1)

\* C4 as claimed: with preserve_existing=false a record named like an item
\* of the list is added beside the items of the list, which then holds two
\* items of that name.
C4_AddsBesideExisting ==
    NoPreserveDone =>
        \A i \in DOMAIN request.data :
            Key(request.data[i].name) \in KeysIn(request.pre) =>
                /\ \A e \in AllItems(request.pre) : e \in AllItems(current_items)
                /\ Len(Named(current_items, Key(request.data[i].name))) = 2

\* C4 amended: with preserve_existing=false the result is built from the
\* answer alone: it holds the first record of each name (ignoring case) of
\* the answer, filed by aisle in the order of the answer, and nothing of the
\* list it found, so a name the list held is held once, by the record.
C4_ReplacesList ==
    NoPreserveDone =>
        /\ KeySet(current_items)
             = {request.data[i].aisle : i \in {k \in DOMAIN request.data : First(k)}}
        /\ \A a \in KeySet(current_items) :
             LET now == ItemsOf(current_items, a)
                 new == FirstsUnder(a, 1)
             IN /\ Len(now) = Len(new)
                /\ \A k \in DOMAIN new : SameFields(now[k], request.data[new[k]])
        /\ NoDuplicateNames(current_items)

\* the list held an item named like a record and an item of another name
C4_Witness ==
    /\ NoPreserveDone
    /\ \E i \in DOMAIN request.data, e, f \in AllItems(request.pre) :
         /\ Key(request.data[i].name) = Key(e.name)
         /\ request.data[i].aisle # e.aisle
         /\ Key(f.name) \notin {Key(request.data[j].name) : j \in DOMAIN request.data}
         /\ Len(Named(current_items, Key(e.name))) = 1
         /\ f \notin AllItems(current_items)

(***************************************************************************)
(* C5                                                                      *)
(***************************************************************************)
\* identity_key as the specification words it: lowercase of the trimmed name
IdentityKey(name) == Key(Strip(name))

TrimmedNamed(d, key) == SelectSeq(Located(d), LAMBDA l : IdentityKey(l.item.name) = key)

\* the items categorize_items builds from the answer, before its filter
Incoming ==
    [i \in DOMAIN request.data |->
        GroceryItem(WithIds(request.data, request.pre_uuid)[i])]

\* C5 as claimed: a record whose trimmed, lowercased name is that of an item
\* of the list is dropped by a merge.
C5_TrimmedKeyDrops ==
    MergeDone =>
        \A i \in DOMAIN request.data :
            (\E e \in AllItems(request.pre) :
                 IdentityKey(e.name) = IdentityKey(request.data[i].name))
            => Len(TrimmedNamed(current_items, IdentityKey(request.data[i].name)))
                 = Len(TrimmedNamed(request.pre, IdentityKey(request.data[i].name)))

\* C5 amended: two items are the same exactly when the lowercase of their
\* names, untrimmed, is equal: after a merge the list holds one item for
\* each lowercased name of the list it found and of the answer, so a record
\* that differs from an item by case alone is dropped and one that differs
\* by surrounding blanks is kept; add_items keeps the new items whose
\* lowercased name no current item has.
C5_LowercaseKeyDecides ==
    MergeDone =>
        /\ KeysIn(current_items)
             = KeysIn(request.pre) \cup {Key(request.data[i].name) : i \in DOMAIN request.data}
        /\ Count(current_items) = Cardinality(KeysIn(current_items))
        /\ add_items(Flatten(request.pre), Incoming)
             = Flatten(request.pre)
               \o SelectSeq(Incoming, LAMBDA it : Key(it.name) \notin KeysIn(request.pre))

\* the list held Milk; records named milk and " Milk " came: one dropped,
\* one kept
C5_Witness ==
    /\ MergeDone
    /\ \E e \in AllItems(request.pre), i, j \in DOMAIN request.data :
         /\ e.name = Milk
         /\ request.data[i].name = milk
         /\ request.data[j].name = MilkPadded
         /\ Named(current_items, Key(milk)) = Named(request.pre, Key(milk))
         /\ Len(Named(current_items, Key(MilkPadded))) = 1
         /\ Named(request.pre, Key(MilkPadded)) = <<>>

(***************************************************************************)
(* C6                                                                      *)
(***************************************************************************)
\* C6: the aisles of the list, in memory and in the persisted document, are
\* in canonical order: known aisles in the order of default_aisles, every
\* other aisle after them; among the other aisles a merge keeps the order of
\* those the list had and puts new ones behind them in the order of the
\* answer; the item requests keep the order of the aisles that stay.
C6_CanonicalOrder ==
    /\ Canonical(current_items)
    /\ Canonical(load_state(state_file))
    /\ MergeDone =>
         UnknownKeys(current_items)
           = UnknownKeys(request.pre)
             \o SelectSeq(NewAisles(1, KeySet(request.pre)), LAMBDA a : ~IsKnown(a))
    /\ (UpdateDone \/ RemoveDone) =>
         Keys(current_items)
           = SelectSeq(Keys(request.pre), LAMBDA a : a \in KeySet(current_items))

\* the list held Pantry alone and a record for Dairy was merged
C6_Witness ==
    /\ MergeDone
    /\ Keys(request.pre) = <<"Pantry">>
    /\ Keys(current_items) = <<"Dairy", "Pantry">>
    /\ Keys(load_state(state_file)) = <<"Dairy", "Pantry">>

(***************************************************************************)
(* C7                                                                      *)
(***************************************************************************)
NoEmptyAisle(d) == \A i \in DOMAIN d : d[i].items # <<>>

\* C7: no aisle of the list, in memory or in the persisted document, has an
\* empty list of items; when remove_item takes every item out of an aisle
\* the aisle is no key of the list any more.
C7_NoEmptyAisle ==
    /\ NoEmptyAisle(current_items)
    /\ NoEmptyAisle(load_state(state_file))
    /\ RemoveDone =>
         ((\A j \in DOMAIN ItemsOf(request.pre, request.aisle) :
               ItemsOf(request.pre, request.aisle)[j].id = request.item_id)
          => request.aisle \notin KeySet(current_items) \cup KeySet(load_state(state_file)))

\* remove_item took the last item of an aisle while another aisle stayed
C7_Witness ==
    /\ RemoveDone
    /\ request.aisle \in KeySet(request.pre)
    /\ request.aisle \notin KeySet(current_items)
    /\ current_items # <<>>

(***************************************************************************)
(* C8                                                                      *)
(***************************************************************************)
\* C8: loading the persisted document gives the list in memory, in every
\* state between and after operations; an item request for an aisle the list
\* lacks, and an ingestion that fails, write nothing.
C8_PersistedIsCurrent ==
    /\ load_state(state_file) = current_items
    /\ ((UpdateDone \/ RemoveDone) /\ request.aisle \notin KeySet(request.pre))
         => state_file = request.pre_file
    /\ (IngestDone /\ request.raised) => state_file = request.pre_file

\* update_item_status changed a flag and wrote the document
C8_Witness ==
    /\ UpdateDone
    /\ current_items # request.pre
    /\ state_file # request.pre_file
    /\ load_state(request.pre_file) = request.pre

(***************************************************************************)
(* C9                                                                      *)
(***************************************************************************)
TargetMissing ==
    \/ request.aisle \notin KeySet(request.pre)
    \/ \A j \in DOMAIN ItemsOf(request.pre, request.aisle) :
           ItemsOf(request.pre, request.aisle)[j].id # request.item_id

\* C9: update_item_status and remove_item for an aisle the list lacks, or
\* for an id no item of the aisle has, raise nothing, return the list as it
\* was and leave the persisted content as it was.
C9_MissingTargetNoOp ==
    ((UpdateDone \/ RemoveDone) /\ TargetMissing) =>
        /\ ~request.raised
        /\ current_items = request.pre
        /\ load_state(state_file) = load_state(request.pre_file)
        /\ state_file.exists = request.pre_file.exists

\* update_item_status for an aisle the list has, with an id no item of it
\* has, asking for a flag some item of the aisle lacks
C9_Witness ==
    /\ UpdateDone
    /\ request.aisle \in KeySet(request.pre)
    /\ TargetMissing
    /\ \E j \in DOMAIN ItemsOf(request.pre, request.aisle) :
           ItemsOf(request.pre, request.aisle)[j].checked # request.checked

(***************************************************************************)
(* C10                                                                     *)
(***************************************************************************)
\* C10: update_item_status changes the checked flag of the items of the
\* named aisle that have the given id and nothing else: aisles, their order,
\* the items, their order and every other field stay.
C10_OnlyCheckedChanges ==
    UpdateDone =>
        /\ Keys(current_items) = Keys(request.pre)
        /\ \A i \in DOMAIN request.pre :
             /\ Len(current_items[i].items) = Len(request.pre[i].items)
             /\ \A j \in DOMAIN request.pre[i].items :
                  LET was == request.pre[i].items[j]
                      now == current_items[i].items[j]
                  IN IF request.pre[i].aisle = request.aisle /\ was.id = request.item_id
                     THEN now = [was EXCEPT !.checked = request.checked]
                     ELSE now = was

\* the flag of an item changed while another aisle holds an item of that id
C10_Witness ==
    /\ UpdateDone
    /\ \E l, m \in DOMAIN Located(request.pre) :
         /\ Located(request.pre)[l].under = request.aisle
         /\ Located(request.pre)[l].item.id = request.item_id
         /\ Located(request.pre)[l].item.checked # request.checked
         /\ Located(request.pre)[m].under # request.aisle
         /\ Located(request.pre)[m].item.id = request.item_id
         /\ Located(request.pre)[m].item.checked # request.checked
         /\ Located(current_items)[l].item.checked = request.checked

(***************************************************************************)
(* C11                                                                     *)
(***************************************************************************)
\* C11: remove_item takes the items with the given id out of the named
\* aisle and nothing else: the other items of that aisle stay with their
\* fields and in their order, and every other aisle stays as it was, the
\* items of the same id or of the same name in it included.
C11_RemovesOnlyTarget ==
    RemoveDone =>
        /\ \A a \in KeySet(request.pre) \ {request.aisle} :
             /\ a \in KeySet(current_items)
             /\ ItemsOf(current_items, a) = ItemsOf(request.pre, a)
        /\ KeySet(current_items) \subseteq KeySet(request.pre)
        /\ SelectSeq(Keys(request.pre), LAMBDA a : a \in KeySet(current_items))
               = Keys(current_items)
        /\ request.aisle \in KeySet(request.pre) =>
               LET rest == SelectSeq(ItemsOf(request.pre, request.aisle),
                                     LAMBDA item : item.id # request.item_id)
               IN IF rest = <<>>
                  THEN request.aisle \notin KeySet(current_items)
                  ELSE /\ request.aisle \in KeySet(current_items)
                       /\ ItemsOf(current_items, request.aisle) = rest

\* an item is removed from its aisle while another aisle holds an item of
\* the same id, which stays
C11_Witness ==
    /\ RemoveDone
    /\ Count(current_items) < Count(request.pre)
    /\ \E l, m \in DOMAIN Located(request.pre) :
         /\ Located(request.pre)[l].under = request.aisle
         /\ Located(request.pre)[l].item.id = request.item_id
         /\ Located(request.pre)[m].under # request.aisle
         /\ Located(request.pre)[m].item.id = request.item_id
         /\ Located(request.pre)[m].item \in AllItems(current_items)

(***************************************************************************)
(* C12                                                                     *)
(***************************************************************************)
\* the file holds the layout save_state writes, every item object with its
\* id, name and aisle
Complete(file) ==
    /\ file.exists
    /\ file.shape = "layout"
    /\ \A i \in DOMAIN file.items : \A j \in DOMAIN file.items[i].items :
           /\ file.items[i].items[j].id # Missing
           /\ file.items[i].items[j].name # MissingName
           /\ file.items[i].items[j].aisle # Missing

StartupDone == request.op = "startup"

\* C12: load_state never raises: when the file is absent, is no JSON, is
\* JSON of another structure or holds an item object without a required
\* field, the list is empty after the start; when the file is a complete
\* document the list is the one it describes.
C12_LoadNeverRaises ==
    /\ pc # "crashed"
    /\ StartupDone =>
         /\ ~request.raised
         /\ IF Complete(request.pre_file)
            THEN /\ Keys(current_items)
                      = [i \in DOMAIN request.pre_file.items |->
                            request.pre_file.items[i].aisle]
                 /\ \A i \in DOMAIN current_items :
                      [j \in DOMAIN current_items[i].items |->
                          current_items[i].items[j].id]
                        = [j \in DOMAIN request.pre_file.items[i].items |->
                              request.pre_file.items[i].items[j].id]
            ELSE current_items = <<>>

(***************************************************************************)
(* C13                                                                     *)
(***************************************************************************)
\* C13: save_state overwrites the document atomically: after a save has
\* started, also when the process stopped part-way through it, load_state
\* gives the whole list of before the save or the whole list the save was
\* writing, never another list and never the empty list in their place.
C13_SaveIsAtomic ==
    /\ pc = "killed" =>
          /\ ~LoadRaises(state_file)
          /\ load_state(state_file) \in {request.pre, current_items}
    /\ (pc = "respond" /\ state_file # request.pre_file) =>
          /\ ~LoadRaises(state_file)
          /\ load_state(state_file) = current_items

(***************************************************************************)
(* C14                                                                     *)
(***************************************************************************)
\* C14: when a call to the collaborator fails in process_message or in
\* add_recipe (an error, a timeout, an answer that cannot be read as item
\* records), the request fails, and the list and the persisted document
\* are as they were: no item of the answer is merged.
C14_FailureChangesNothing ==
    (IngestDone /\ (request.raised \/ ~WellFormed(request.data))) =>
        /\ request.raised
        /\ current_items = request.pre
        /\ state_file = request.pre_file

\* an answer fails validation at its second record, after a first record
\* that a merge would have added to a list that holds an item
C14_Witness ==
    /\ IngestDone
    /\ request.raised
    /\ request.pre # <<>>
    /\ Len(request.data) = 2
    /\ WellFormed(<<request.data[1]>>)
    /\ ~WellFormed(<<request.data[2]>>)
    /\ Survives(1)

(***************************************************************************)
(* C15                                                                     *)
(***************************************************************************)
\* C15: no two items of the list have the same id, whatever records the
\* collaborator answers with, records that carry an id included.
C15_UniqueIds ==
    \A i, j \in DOMAIN Flatten(current_items) :
        i # j => Flatten(current_items)[i].id # Flatten(current_items)[j].id

(***************************************************************************)
(* C16                                                                     *)
(***************************************************************************)
\* the same names and aisles in the same order, any ids and quantities
SameNamesAndAisles(again, data) ==
    /\ Len(again) = Len(data)
    /\ \A i \in DOMAIN data :
          again[i].name = data[i].name /\ again[i].aisle = data[i].aisle

\* the answers with the names and aisles of data, record by record
RECURSIVE SecondCopies(_)
SecondCopies(data) ==
    IF data = <<>> THEN {<<>>}
    ELSE {<<record>> \o rest :
             record \in {r \in ItemData : SameNamesAndAisles(<<r>>, <<Head(data)>>)},
             rest \in SecondCopies(Tail(data))}

\* C16: a merge with preserve_existing=True is idempotent: after the
\* records of an answer are merged, merging records of the same names and
\* aisles again, whatever their ids, gives the list that the first merge
\* gave, with its items, ids, fields and order.
C16_MergeIdempotent ==
    MergeDone =>
        \A again \in SecondCopies(request.data) :
            /\ ~CategorizeRaises(again)
            /\ Merged(current_items, again, TRUE, uuid_count) = current_items

\* the first merge added an item, under an aisle other than the first, to
\* a list that held one, and the second copy of the record has another id
C16_Witness ==
    /\ MergeDone
    /\ request.pre # <<>>
    /\ \E i \in Survivors : request.data[i].aisle # current_items[1].aisle
    /\ \E again \in SecondCopies(request.data) :
          \E i \in Survivors : again[i].id # request.data[i].id

(***************************************************************************)
(* C17                                                                     *)
(***************************************************************************)
\* a merge of no record: organize_by_aisle only sorts the aisles
SequencingDone == MergeDone /\ request.data = <<>>

\* C17: the sort of the aisles is a reordering and is idempotent: the list
\* after it has the aisles of the list before it, each with the same items
\* in the same order, and sorting the list after it gives that list again.
C17_SequencingReorders ==
    SequencingDone =>
        /\ KeySet(current_items) = KeySet(request.pre)
        /\ Len(current_items) = Len(request.pre)
        /\ \A a \in KeySet(request.pre) :
               ItemsOf(current_items, a) = ItemsOf(request.pre, a)
        /\ sorted_aisles(current_items) = current_items

\* a list found with an unknown aisle before a known one and a second
\* unknown aisle after it is sorted: the known aisle comes first, the two
\* unknown aisles keep their order
C17_Witness ==
    /\ SequencingDone
    /\ Keys(request.pre) = <<"Deli", "Dairy", "Bakery">>
    /\ Keys(current_items) = <<"Dairy", "Deli", "Bakery">>

(***************************************************************************)
(* C18                                                                     *)
(***************************************************************************)
\* C18: for a list of two aisles or more, load_state of the document
\* save_state writes is that list: the aisles in their order, the items in
\* their order, every field of every item, None in quantity and
\* quantity_unit included.
C18_SaveLoadRoundTrip ==
    Len(current_items) >= 2 =>
        /\ ~LoadRaises(save_state(current_items))
        /\ load_state(save_state(current_items)) = current_items

\* a saved list of three aisles that are not in canonical order, with an
\* item without quantity, an item with quantity and unit, and a checked item
C18_Witness ==
    /\ pc = "respond"
    /\ state_file = save_state(current_items)
    /\ Len(current_items) = 3
    /\ ~Canonical(current_items)
    /\ \E it \in AllItems(current_items) : it.quantity = None /\ it.quantity_unit = None
    /\ \E it \in AllItems(current_items) :
          it.quantity # None /\ it.quantity_unit # None /\ ~it.checked
    /\ \E it \in AllItems(current_items) : it.checked

(***************************************************************************)
(* C19                                                                     *)
(***************************************************************************)
Incomplete(item) == item.name = MissingName \/ item.aisle = Missing

\* the records of the answer that have a name and an aisle and whose name
\* no item of the list found and no earlier record has
WellFormedSurvivors ==
    {i \in Survivors : WellFormed(<<request.data[i]>>)}

\* C19 as stated: a record of the answer without a name or without an
\* aisle is dropped and never appears in the list or in the file, and the
\* other records of that answer are merged as usual.
C19_MalformedDropped ==
    /\ \A it \in AllItems(current_items) : ~Incomplete(it)
    /\ (IngestDone /\ ~WellFormed(request.data)) =>
          \A i \in WellFormedSurvivors :
              \E it \in AllItems(current_items) :
                  it.name = request.data[i].name /\ it.aisle = request.data[i].aisle

\* C19: no item of the list or of the file lacks its name or its aisle; an
\* answer with a record without name or without aisle fails the request,
\* and no record of that answer is merged, the records that have both
\* included.
C19_MalformedFailsBatch ==
    /\ \A it \in AllItems(current_items) : ~Incomplete(it)
    /\ ~LoadRaises(state_file)
    /\ \A it \in AllItems(load_state(state_file)) : ~Incomplete(it)
    /\ (IngestDone /\ ~WellFormed(request.data)) =>
          /\ request.raised
          /\ Count(current_items) = Count(request.pre)
          /\ \A i \in WellFormedSurvivors :
                Key(request.data[i].name) \notin KeysIn(current_items)

\* an answer whose first record has a name new to the list and whose
\* second record has no aisle
C19_Witness ==
    /\ IngestDone
    /\ Len(request.data) = 2
    /\ 1 \in WellFormedSurvivors
    /\ request.data[2].aisle = Missing
    /\ request.data[2].name # MissingName
    /\ request.pre # <<>>

(***************************************************************************)
(* C20                                                                     *)
(***************************************************************************)
\* the handler that has run had waited for the collaborator
Resumed == {k \in DOMAIN in_flight : in_flight[k].phase = "resumed"}

\* the item is in the list d, under that aisle, whatever its checked flag
Held(d, l) ==
    \E m \in DOMAIN Located(d) :
        /\ Located(d)[m].under = l.under
        /\ [Located(d)[m].item EXCEPT !.checked = FALSE]
              = [l.item EXCEPT !.checked = FALSE]
        /\ (pc = "respond" /\ request.op = "update_item"
               /\ l.under = request.aisle /\ l.item.id = request.item_id)
            \/ Located(d)[m].item.checked = l.item.checked

\* C20: no update is lost when requests overlap.  Each handler acts on the
\* list as it is when the handler goes on after its call, not as it was
\* when the call was made: a merge keeps every item the list holds then,
\* with its checked flag, and adds its surviving records; update_item and
\* remove_item keep every item but the one they name; no two items have
\* the same name ignoring case; the file holds the list.
C20_NoLostUpdate ==
    /\ NoDuplicateNames(current_items)
    /\ load_state(state_file) = current_items
    /\ MergeDone =>
          /\ \A l \in DOMAIN Located(request.pre) :
                Held(current_items, Located(request.pre)[l])
          /\ \A i \in Survivors :
                Key(request.data[i].name) \in KeysIn(current_items)
    /\ UpdateDone =>
          /\ \A l \in DOMAIN Located(request.pre) :
                Held(current_items, Located(request.pre)[l])
          /\ \A it \in AllItems(current_items) :
                (it.aisle = request.aisle /\ it.id = request.item_id
                   /\ request.aisle \in KeySet(request.pre))
                  => it.checked = request.checked
    /\ RemoveDone =>
          \A l \in DOMAIN Located(request.pre) :
              (Located(request.pre)[l].under # request.aisle
                 \/ Located(request.pre)[l].item.id # request.item_id)
                => Held(current_items, Located(request.pre)[l])

\* a merge by a handler that waited while another handler, which made
\* its call later, added an item and update_item checked that item
C20_Witness ==
    /\ MergeDone
    /\ Survivors # {}
    /\ \E k \in Resumed :
          /\ \E j \in DOMAIN in_flight : j > k /\ in_flight[j].phase = "done"
          /\ \E it \in AllItems(request.pre) :
                /\ it.checked
                /\ Key(it.name) \notin KeysIn(in_flight[k].seen)
                /\ it \in AllItems(current_items)

====
